---------------------------- MODULE Spec2Model ----------------------------
(***************************************************************************)
(* A state-machine model of employee_metrics_app: the Employee and Metric  *)
(* tables, the employee forms of routes.py (add, edit, delete), and the    *)
(* metrics update of github_api.py (the HTTP client wrapper _request with  *)
(* its 202 polling loop, the aggregation of the contributor statistics,    *)
(* the three search counts and the snapshot writer).                       *)
(*                                                                         *)
(* Every handler runs synchronously to completion, so the form handlers    *)
(* act only while no update is in progress (pc = "idle"); the update is    *)
(* cut into steps at its external calls.                                   *)
(*                                                                         *)
(* Python values.  A str is a sequence of one-character strings; a value   *)
(* that may be None is a sequence of length at most one (<<>> is None);    *)
(* a configuration or form value is a record that says whether it is None. *)
(***************************************************************************)
EXTENDS Integers, Sequences, FiniteSets

(***************************************************************************)
(* Bounds of the model.                                                    *)
(***************************************************************************)
\* Employee ids range over 1..MaxEmployeeId.
MaxEmployeeId == 2

\* At most MaxSnapshots Metric rows are ever inserted in one behaviour.
MaxSnapshots == 2

(***************************************************************************)
(* Python helpers.                                                         *)
(***************************************************************************)
None == <<>>

Some(v) == <<v>>

PyNone == [is_none |-> TRUE, s |-> <<>>]

PyStr(s) == [is_none |-> FALSE, s |-> s]

\* bool(v) of a value that is None or a str: None and "" are falsy.
Truthy(v) == ~v.is_none /\ Len(v.s) > 0

RECURSIVE LStrip(_)
LStrip(s) ==
    IF s # <<>> /\ Head(s) = " " THEN LStrip(Tail(s)) ELSE s

RECURSIVE RStrip(_)
RStrip(s) ==
    IF s # <<>> /\ s[Len(s)] = " " THEN RStrip(SubSeq(s, 1, Len(s) - 1)) ELSE s

\* str.strip(): leading and trailing blanks removed.
Strip(s) == RStrip(LStrip(s))

\* request.form.get(key, '') of a text field: an absent field reads ''.
FormGet(v) == IF v.is_none THEN <<>> ELSE v.s

RECURSIVE SetMax(_)
SetMax(S) ==
    IF S = {} THEN 0
    ELSE LET x == CHOOSE y \in S : TRUE
             m == SetMax(S \ {x})
         IN IF x > m THEN x ELSE m

(***************************************************************************)
(* Inputs of the forms and the values of the configuration.                *)
(***************************************************************************)
NameInputs == {PyNone, PyStr(<<"x">>), PyStr(<<"y", " ">>)}

UsernameInputs == {PyStr(<<" ">>), PyStr(<<" ", "a">>), PyStr(<<"b">>)}

\* The checkbox: absent when unchecked, "on" when checked.
ActiveInputs == {PyNone, PyStr(<<"o", "n">>)}

ConfigValues == {PyNone, PyStr(<<>>), PyStr(<<"v">>)}

VARIABLES
    employees,    \* the Employee table: a set of rows
    metrics,      \* the Metric table: a set of rows
    config,       \* Config.GITHUB_TOKEN, REPO_OWNER, REPO_NAME
    clock,        \* the time a new Metric row's timestamp defaults to
    flash,        \* the message the last request flashed ("": none)
    pc,           \* where the metrics update stands ("idle": none runs)
    queue,        \* update_metrics_for_all_employees: the employees still to do
    new_records,  \* update_metrics_for_all_employees: the rows collected so far
    emp,          \* update_metrics_for_employee: the employee (None outside)
    record,       \* what update_metrics_for_employee returned
    call,         \* which of the four fetches is under way
    resp,         \* _request: the last response's status (None before one)
    retries,      \* _request: the retries made
    delays,       \* _request: the time.sleep() calls made, in order
    responses,    \* _request: the status codes received, in order
    result,       \* what _request returned to the fetch
    json,         \* what resp.json() of that result gives the fetch
    stats,        \* update_metrics_for_employee: the contributor statistics
    commits,      \* update_metrics_for_employee: totals['commits']
    prs_opened,   \* update_metrics_for_employee: the three search counts
    prs_merged,
    reviews,
    all_failed    \* no fetch of this update got a usable response so far

dbvars == <<employees, metrics, config, clock>>

batchvars == <<queue, new_records, emp, record>>

reqvars == <<resp, retries, delays, responses, result, json>>

localvars == <<stats, commits, prs_opened, prs_merged, reviews, all_failed>>

vars == <<dbvars, flash, pc, batchvars, call, reqvars, localvars>>

(***************************************************************************)
(* The tables.                                                             *)
(***************************************************************************)
\* The id the database gives a new row: one more than the largest in use.
NextId(rows) == SetMax({r.id : r \in rows}) + 1

\* A lookup that never finds a row: the forms without their uniqueness check.
UsernameNeverExists(username) == FALSE

\* Employee.query.filter_by(github_username=username).first() finds a row.
UsernameExists(username) ==
    \E e \in employees : e.github_username = username

\* A relationship without the cascade: the employee's rows stay behind.
NoCascade(id) == {}

\* A cascade that is not limited to the employee: every row goes.
CascadeEveryRow(id) == metrics

\* The cascade of Employee.metrics: the rows deleted with employee `id`.
CascadeDelete(id) == {m \in metrics : m.employee_id = id}

(***************************************************************************)
(* routes.py: the employee forms.  Each returns the Employee table it      *)
(* leaves and the message it flashes.                                      *)
(***************************************************************************)
Outcome(rows, message) == [employees |-> rows, flash |-> message]

\* A POST to /employees/add with the stripped name and username.
AddEmployee(name, username, active) ==
    IF name = <<>> \/ username = <<>> THEN Outcome(employees, "required")
    ELSE IF UsernameExists(username) THEN Outcome(employees, "exists")
    ELSE Outcome(employees \cup {[id |-> NextId(employees), name |-> name,
                                  github_username |-> username,
                                  active |-> active]},
                 "registered")

add_employee ==
    /\ pc = "idle"
    /\ NextId(employees) <= MaxEmployeeId
    /\ \E n \in NameInputs, u \in UsernameInputs, a \in ActiveInputs :
         LET done == AddEmployee(Strip(FormGet(n)), Strip(FormGet(u)), Truthy(a))
         IN /\ employees' = done.employees
            /\ flash' = done.flash
    /\ UNCHANGED <<metrics, config, clock, pc, batchvars, call, reqvars, localvars>>

\* An edit that assigns and commits the name and the active flag before it
\* checks the username.
EditEmployeeEager(employee, name, username, active) ==
    IF name = <<>> \/ username = <<>> THEN Outcome(employees, "required")
    ELSE IF username # employee.github_username /\ UsernameExists(username)
    THEN Outcome((employees \ {employee})
                    \cup {[id |-> employee.id, name |-> name,
                           github_username |-> employee.github_username,
                           active |-> active]},
                 "exists")
    ELSE Outcome((employees \ {employee})
                    \cup {[id |-> employee.id, name |-> name,
                           github_username |-> username, active |-> active]},
                 "updated")

\* A POST to /employees/<id>/edit of the row `employee`.
EditEmployee(employee, name, username, active) ==
    IF name = <<>> \/ username = <<>> THEN Outcome(employees, "required")
    ELSE IF username # employee.github_username /\ UsernameExists(username)
    THEN Outcome(employees, "exists")
    ELSE Outcome((employees \ {employee})
                    \cup {[id |-> employee.id, name |-> name,
                           github_username |-> username, active |-> active]},
                 "updated")

\* Employee.query.get_or_404(employee_id): the rows with that id.
GetOr404(employee_id) == {e \in employees : e.id = employee_id}

edit_employee ==
    /\ pc = "idle"
    /\ \E employee_id \in 1..MaxEmployeeId :
         IF GetOr404(employee_id) = {}
         THEN flash' = "" /\ UNCHANGED employees
         ELSE \E employee \in GetOr404(employee_id) :
              \E n \in NameInputs, u \in UsernameInputs, a \in ActiveInputs :
                LET done == EditEmployee(employee, Strip(FormGet(n)),
                                         Strip(FormGet(u)), Truthy(a))
                IN /\ employees' = done.employees
                   /\ flash' = done.flash
    /\ UNCHANGED <<metrics, config, clock, pc, batchvars, call, reqvars, localvars>>

delete_employee ==
    /\ pc = "idle"
    /\ \E employee_id \in 1..MaxEmployeeId :
         IF GetOr404(employee_id) = {}
         THEN flash' = "" /\ UNCHANGED <<employees, metrics>>
         ELSE \E employee \in GetOr404(employee_id) :
                /\ employees' = employees \ {employee}
                /\ metrics' = metrics \ CascadeDelete(employee.id)
                /\ flash' = "deleted"
    /\ UNCHANGED <<config, clock, pc, batchvars, call, reqvars, localvars>>

(***************************************************************************)
(* github_api.py: the answers of the external service.                     *)
(***************************************************************************)
\* The retry limit of the polling loop.
MaxRetries == 5

\* The status codes the service answers fetch `c` with.  It answers 202
\* (the data is being computed) on the statistics endpoint only.
Statuses(c) == IF c = "contributors" THEN {200, 202, 403} ELSE {200, 403}

\* What one requests.get() of fetch `c` ends in: a response, or a
\* RequestException (timeout, connection error).
GetOutcomes(c) ==
    {[exc |-> FALSE, status_code |-> s] : s \in Statuses(c)}
        \cup {[exc |-> TRUE, status_code |-> 0]}

\* JSON scalars, and "missing" for a key the object does not have.
JInt(n) == [t |-> "int", n |-> n, s |-> <<>>]

JStr(s) == [t |-> "str", n |-> 0, s |-> s]

JNull == [t |-> "null", n |-> 0, s |-> <<>>]

JMissing == [t |-> "missing", n |-> 0, s |-> <<>>]

\* One element of the contributor statistics: an object with its author's
\* login and the 'c' of each of its weeks, or a value that is no object.
Contributor(login, weeks) == [kind |-> "object", login |-> login, weeks |-> weeks]

NotAnObject == [kind |-> "string", login |-> JMissing, weeks |-> <<>>]

\* A decoded body: a JSON list, a JSON object (iterating it gives its keys,
\* which are strings), JSON null; "notjson" when resp.json() raises ValueError.
JList(items) == [kind |-> "list", items |-> items]

JObject(keys) == [kind |-> "object", items |-> keys]

\* The bodies of GET /repos/{owner}/{repo}/stats/contributors.
StatsBodies ==
    { [kind |-> "notjson", items |-> <<>>],
      [kind |-> "null", items |-> <<>>],
      JObject(<<>>),
      JObject(<<NotAnObject>>),
      JList(<<>>),
      JList(<<NotAnObject>>),
      JList(<<Contributor(JStr(<<"a">>), <<JInt(3), JInt(5)>>)>>),
      JList(<<Contributor(JStr(<<"a">>), <<JInt(-1), JMissing>>),
              Contributor(JNull, <<JInt(1)>>),
              Contributor(JStr(<<"b">>), <<JInt(1)>>),
              Contributor(JStr(<<"b">>), <<>>)>>),
      JList(<<Contributor(JStr(<<"a">>), <<JInt(1), JNull>>)>>) }

\* The bodies of GET /search/issues: an object with its total_count, or
\* a body of another shape.
SearchObject(total_count) ==
    [kind |-> "object", total_count |-> total_count]

SearchBodies ==
    { [kind |-> "notjson", total_count |-> JMissing],
      [kind |-> "list", total_count |-> JMissing],
      SearchObject(JMissing),
      SearchObject(JNull),
      SearchObject(JInt(2)),
      SearchObject(JStr(<<"2">>)),
      SearchObject(JStr(<<"x">>)) }

\* No response at hand whose body could be read.
NoBody == [kind |-> "none", items |-> <<>>]

\* The bodies the service may send with a response to fetch `c`.
BodiesOf(c) == IF c = "contributors" THEN StatsBodies ELSE SearchBodies

(***************************************************************************)
(* github_api.py: the pure parts.  A call that may raise returns a record  *)
(* with the exception's name in exc ("" when it returns normally).         *)
(***************************************************************************)
Returns(v) == [exc |-> "", value |-> v]

Raises(e) == [exc |-> e, value |-> 0]

DigitChars == <<"0", "1", "2", "3", "4", "5", "6", "7", "8", "9">>

IsDigit(c) == \E i \in DOMAIN DigitChars : DigitChars[i] = c

DigitValue(c) == (CHOOSE i \in DOMAIN DigitChars : DigitChars[i] = c) - 1

RECURSIVE ParseDigits(_, _)
ParseDigits(s, acc) ==
    IF s = <<>> THEN acc
    ELSE ParseDigits(Tail(s), acc * Len(DigitChars) + DigitValue(Head(s)))

\* int(v) of a JSON scalar: an int as it is, a str parsed as decimal digits
\* (ValueError when it is not a number), TypeError for None.
PyInt(v) ==
    CASE v.t = "int" -> Returns(v.n)
      [] v.t = "str" ->
            IF v.s # <<>> /\ \A i \in DOMAIN v.s : IsDigit(v.s[i])
            THEN Returns(ParseDigits(v.s, 0))
            ELSE Raises("ValueError")
      [] OTHER -> Raises("TypeError")

\* bool(resp) of what _request returned: None is falsy, and so is a
\* response whose status is an error.
RespOk(r) == r # None /\ r[1] < 400

\* sum(week.get('c', 0) for week in weeks): a week without 'c' counts 0,
\* a 'c' that is no number raises TypeError.
RECURSIVE SumWeeks(_)
SumWeeks(weeks) ==
    IF weeks = <<>> THEN Returns(0)
    ELSE LET c == IF Head(weeks).t = "missing" THEN JInt(0) ELSE Head(weeks)
             rest == SumWeeks(Tail(weeks))
         IN IF c.t # "int" THEN Raises("TypeError")
            ELSE IF rest.exc # "" THEN rest
            ELSE Returns(c.n + rest.value)

\* totals[login] = {'commits': commits_sum}: a later entry of the same login
\* replaces an earlier one.
TotalsPut(totals, login, commits_sum) ==
    [l \in DOMAIN totals \cup {login} |->
        IF l = login THEN commits_sum ELSE totals[l]]

\* _aggregate_contributor_totals(stats), from the totals gathered so far.
RECURSIVE AggregateFrom(_, _)
AggregateFrom(items, totals) ==
    IF items = <<>> THEN Returns(totals)
    ELSE LET contributor == Head(items)
             login == contributor.login
             s == SumWeeks(contributor.weeks)
         IN IF contributor.kind # "object" THEN Raises("AttributeError")
            ELSE IF login.t # "str" \/ login.s = <<>>
            THEN AggregateFrom(Tail(items), totals)
            ELSE IF s.exc # "" THEN s
            ELSE AggregateFrom(Tail(items), TotalsPut(totals, login.s, s.value))

AggregateContributorTotals(st) ==
    IF st.kind = "null" THEN Raises("TypeError")
    ELSE AggregateFrom(st.items, <<>>)

\* A lookup that takes a contributor's total whoever the contributor is.
TotalsGetAnyone(totals_map, username) ==
    IF DOMAIN totals_map = {} THEN 0
    ELSE totals_map[CHOOSE l \in DOMAIN totals_map : TRUE]

\* totals_map.get(username, {'commits': 0})['commits']
TotalsGet(totals_map, username) ==
    IF username \in DOMAIN totals_map THEN totals_map[username] ELSE 0

\* fetch_contributor_stats: what it returns for _request's result and the
\* body of the response.
FetchContributorStats(r, body) ==
    IF ~RespOk(r) THEN JList(<<>>)
    ELSE IF body.kind = "notjson" THEN JList(<<>>)
    ELSE body

\* _search_total_count: int(resp.json().get('total_count', 0)); only
\* ValueError is caught.
SearchTotalCount(r, body) ==
    IF ~RespOk(r) THEN Returns(0)
    ELSE IF body.kind = "notjson" THEN Returns(0)
    ELSE IF body.kind # "object" THEN Raises("AttributeError")
    ELSE LET v == IF body.total_count.t = "missing" THEN JInt(0)
                  ELSE body.total_count
             n == PyInt(v)
         IN IF n.exc = "ValueError" THEN Returns(0) ELSE n

\* A configuration check that forgets the token.
ConfiguredWithoutToken ==
    /\ Truthy(config["REPO_OWNER"])
    /\ Truthy(config["REPO_NAME"])

\* The search terms with fetch_prs_merged and fetch_reviews mixed up.
SearchTermsMixedUp(c, username) ==
    CASE c = "prs_opened" -> << <<"is:pr">>, <<"author:">> \o username >>
      [] c = "prs_merged" -> << <<"is:pr">>, <<"reviewed-by:">> \o username >>
      [] c = "reviews" ->
            << <<"is:pr">>, <<"author:">> \o username, <<"is:merged">> >>
      [] OTHER -> <<>>

\* The terms fetch_prs_opened, fetch_prs_merged and fetch_reviews search for.
\* A term is the sequence of the pieces its f-string is made of.
SearchTerms(c, username) ==
    CASE c = "prs_opened" -> << <<"is:pr">>, <<"author:">> \o username >>
      [] c = "prs_merged" ->
            << <<"is:pr">>, <<"author:">> \o username, <<"is:merged">> >>
      [] c = "reviews" -> << <<"is:pr">>, <<"reviewed-by:">> \o username >>
      [] OTHER -> <<>>

\* query = " ".join(terms + [f"repo:{owner}/{repo}"]): the terms in order.
SearchQuery(terms, owner, repo) ==
    Append(terms, <<"repo:">> \o owner \o <<"/">> \o repo)

\* The configuration check of update_metrics_for_employee.
Configured ==
    /\ Truthy(config["REPO_OWNER"])
    /\ Truthy(config["REPO_NAME"])
    /\ Truthy(config["GITHUB_TOKEN"])

\* A query without the filter: every employee, active or not.
EveryEmployee == employees

\* Employee.query.filter_by(active=True).all()
ActiveEmployees == {e \in employees : e.active}

\* The rows of a query, in the order of their ids.
RECURSIVE InIdOrder(_)
InIdOrder(rows) ==
    IF rows = {} THEN <<>>
    ELSE LET first == CHOOSE r \in rows : \A o \in rows : r.id <= o.id
         IN <<first>> \o InIdOrder(rows \ {first})

(***************************************************************************)
(* github_api.py: the metrics update, step by step.                        *)
(***************************************************************************)
\* The locals of _request and of update_metrics_for_employee before use.
NoRequest ==
    /\ resp' = None
    /\ retries' = 0
    /\ delays' = <<>>
    /\ responses' = <<>>
    /\ json' = NoBody

NoLocals ==
    /\ stats' = JList(<<>>)
    /\ commits' = 0
    /\ prs_opened' = 0
    /\ prs_merged' = 0
    /\ reviews' = 0
    /\ all_failed' = TRUE

\* An exception leaves update_metrics_for_all_employees: the employees still
\* in the queue are not processed.
Propagate ==
    /\ pc' = "raised"
    /\ call' = "none"
    /\ result' = None
    /\ NoRequest
    /\ NoLocals

\* update_metrics_for_all_employees: the query, and the empty list.
StartBatch ==
    /\ pc = "idle"
    /\ Configured => (clock - 1) + Cardinality(ActiveEmployees) <= MaxSnapshots
    /\ queue' = InIdOrder(ActiveEmployees)
    /\ new_records' = <<>>
    /\ pc' = "loop"
    /\ flash' = ""
    /\ UNCHANGED <<dbvars, emp, record, call, reqvars, localvars>>

\* The loop takes the next employee and update_metrics_for_employee checks
\* the configuration: None when a value is unset, else the first fetch.
NextEmployee ==
    /\ pc = "loop"
    /\ queue # <<>>
    /\ emp' = Some(Head(queue))
    /\ queue' = Tail(queue)
    /\ IF Configured
       THEN pc' = "request" /\ call' = "contributors" /\ UNCHANGED record
       ELSE pc' = "collect" /\ record' = None /\ UNCHANGED call
    /\ UNCHANGED <<dbvars, flash, new_records, reqvars, localvars>>

\* The condition of the polling loop.
KeepPolling(r, n) == r = Some(202) /\ n < MaxRetries

\* A backoff that grows linearly: 1, 2, 3, ...
LinearBackoff(n) == n + 1

\* The delay before retry number `n` (counted from 0).
Backoff(n) == 2 ^ n

\* A return without the status check: the response whatever its status.
RequestResultUnchecked(r) == r

\* What _request returns after the loop: None for an error status, else
\* the response.
RequestResult(r) == IF r[1] >= 400 THEN None ELSE r

\* _request returns `r` to the fetch that called it; its frame is gone.
ReturnToFetch(r) ==
    /\ result' = r
    /\ pc' = "body"
    /\ resp' = None
    /\ retries' = 0
    /\ delays' = <<>>
    /\ responses' = <<>>
    /\ IF RespOk(r) THEN json' \in BodiesOf(call) ELSE json' = NoBody

\* _request up to its first requests.get(): None without a token, None on a
\* RequestException, else on to the polling loop.
RequestGet ==
    /\ pc = "request"
    /\ IF ~Truthy(config["GITHUB_TOKEN"])
       THEN ReturnToFetch(None)
       ELSE \E o \in GetOutcomes(call) :
              IF o.exc
              THEN ReturnToFetch(None)
              ELSE /\ resp' = Some(o.status_code)
                   /\ retries' = 0
                   /\ responses' = <<o.status_code>>
                   /\ pc' = "poll"
                   /\ UNCHANGED <<delays, result, json>>
    /\ UNCHANGED <<dbvars, flash, batchvars, call, localvars>>

\* One turn of the polling loop: sleep, get again, count the retry.
RequestRetry ==
    /\ pc = "poll"
    /\ KeepPolling(resp, retries)
    /\ \E o \in GetOutcomes(call) :
         IF o.exc
         THEN ReturnToFetch(None)
         ELSE /\ delays' = Append(delays, Backoff(retries))
              /\ resp' = Some(o.status_code)
              /\ retries' = retries + 1
              /\ responses' = Append(responses, o.status_code)
              /\ UNCHANGED <<pc, result, json>>
    /\ UNCHANGED <<dbvars, flash, batchvars, call, localvars>>

\* The polling loop is over: the status check and the return.
RequestReturn ==
    /\ pc = "poll"
    /\ ~KeepPolling(resp, retries)
    /\ ReturnToFetch(RequestResult(resp))
    /\ UNCHANGED <<dbvars, flash, batchvars, call, localvars>>

\* fetch_contributor_stats returns the decoded body, or [].
ContributorStats ==
    /\ pc = "body"
    /\ call = "contributors"
    /\ stats' = FetchContributorStats(result, json)
    /\ pc' = "aggregate"
    /\ result' = None
    /\ json' = NoBody
    /\ all_failed' = (all_failed /\ ~RespOk(result))
    /\ UNCHANGED <<dbvars, flash, batchvars, call, resp, retries, delays, responses,
                   commits, prs_opened, prs_merged, reviews>>

\* totals = _aggregate_contributor_totals(stats).get(username, {'commits': 0})
Aggregate ==
    /\ pc = "aggregate"
    /\ LET totals_map == AggregateContributorTotals(stats)
       IN IF totals_map.exc # ""
          THEN Propagate /\ UNCHANGED <<dbvars, flash, batchvars>>
          ELSE /\ commits' = TotalsGet(totals_map.value, emp[1].github_username)
               /\ stats' = JList(<<>>)
               /\ pc' = "request"
               /\ call' = "prs_opened"
               /\ UNCHANGED <<dbvars, flash, batchvars, reqvars,
                              prs_opened, prs_merged, reviews, all_failed>>

\* The 'q' of the search under way for the employee.
Query ==
    SearchQuery(SearchTerms(call, emp[1].github_username),
                config["REPO_OWNER"].s, config["REPO_NAME"].s)

\* An order of the searches with the reviews before the merged requests.
NextCallReviewsFirst(c) ==
    CASE c = "prs_opened" -> "reviews"
      [] c = "reviews" -> "prs_merged"
      [] OTHER -> "none"

\* The fetch after `c`, and where its count goes.
NextCall(c) ==
    CASE c = "prs_opened" -> "prs_merged"
      [] c = "prs_merged" -> "reviews"
      [] OTHER -> "none"

\* fetch_prs_opened, fetch_prs_merged, fetch_reviews: the count of the
\* search, assigned to its local.
SearchCount ==
    /\ pc = "body"
    /\ call \in {"prs_opened", "prs_merged", "reviews"}
    /\ LET n == SearchTotalCount(result, json)
       IN IF n.exc # ""
          THEN Propagate /\ UNCHANGED <<dbvars, flash, batchvars>>
          ELSE /\ prs_opened' = IF call = "prs_opened" THEN n.value ELSE prs_opened
               /\ prs_merged' = IF call = "prs_merged" THEN n.value ELSE prs_merged
               /\ reviews' = IF call = "reviews" THEN n.value ELSE reviews
               /\ call' = NextCall(call)
               /\ pc' = IF call = "reviews" THEN "insert" ELSE "request"
               /\ result' = None
               /\ json' = NoBody
               /\ all_failed' = (all_failed /\ ~RespOk(result))
               /\ UNCHANGED <<dbvars, flash, batchvars, resp, retries, delays, responses,
                              stats, commits>>

\* The row update_metrics_for_employee builds.
NewMetric ==
    [id |-> NextId(metrics), employee_id |-> emp[1].id, timestamp |-> clock,
     commits |-> commits, prs_opened |-> prs_opened,
     prs_merged |-> prs_merged, reviews |-> reviews]

\* An insert without its commit: the row is returned but not persisted.
InsertMetricUncommitted ==
    /\ pc = "insert"
    /\ clock' = clock + 1
    /\ record' = Some(NewMetric)
    /\ pc' = "collect"
    /\ UNCHANGED <<employees, metrics, config, flash, queue, new_records, emp,
                   call, reqvars, localvars>>

\* db.session.add(metric); db.session.commit(); return metric
InsertMetric ==
    /\ pc = "insert"
    /\ metrics' = metrics \cup {NewMetric}
    /\ clock' = clock + 1
    /\ record' = Some(NewMetric)
    /\ pc' = "collect"
    /\ UNCHANGED <<employees, config, flash, queue, new_records, emp, call,
                   reqvars, localvars>>

\* The loop keeps the record when it is not None.
Collect ==
    /\ pc = "collect"
    /\ new_records' = IF record # None THEN Append(new_records, record[1])
                      ELSE new_records
    /\ record' = None
    /\ emp' = None
    /\ pc' = "loop"
    /\ NoLocals
    /\ UNCHANGED <<dbvars, flash, queue, call, reqvars>>

\* return new_records
BatchReturn ==
    /\ pc = "loop"
    /\ queue = <<>>
    /\ pc' = "returned"
    /\ UNCHANGED <<dbvars, flash, batchvars, call, reqvars, localvars>>

\* The caller (the /update route, or the scheduled script) is done with the
\* list, or the exception ends it.
update ==
    /\ pc \in {"returned", "raised"}
    /\ pc' = "idle"
    /\ queue' = <<>>
    /\ new_records' = <<>>
    /\ emp' = None
    /\ record' = None
    /\ flash' = IF pc = "returned" THEN "metrics" ELSE ""
    /\ UNCHANGED <<dbvars, call, reqvars, localvars>>

\* The database file outlives the process: a start finds it empty, or as an
\* earlier run left it, here with one employee and the snapshot of an update
\* whose fetches all failed.
InitialDatabases ==
    { [employees |-> {}, metrics |-> {}, clock |-> 1],
      [employees |-> {[id |-> 1, name |-> <<"x">>, github_username |-> <<"a">>,
                       active |-> TRUE]},
       metrics |-> {[id |-> 1, employee_id |-> 1, timestamp |-> 1, commits |-> 0,
                     prs_opened |-> 0, prs_merged |-> 0, reviews |-> 0]},
       clock |-> 2] }

Init ==
    /\ \E db \in InitialDatabases :
         /\ employees = db.employees
         /\ metrics = db.metrics
         /\ clock = db.clock
    /\ config \in [{"GITHUB_TOKEN", "REPO_OWNER", "REPO_NAME"} -> ConfigValues]
    /\ flash = ""
    /\ pc = "idle"
    /\ queue = <<>>
    /\ new_records = <<>>
    /\ emp = None
    /\ record = None
    /\ call = "none"
    /\ resp = None
    /\ retries = 0
    /\ delays = <<>>
    /\ responses = <<>>
    /\ result = None
    /\ json = NoBody
    /\ stats = JList(<<>>)
    /\ commits = 0
    /\ prs_opened = 0
    /\ prs_merged = 0
    /\ reviews = 0
    /\ all_failed = TRUE

Next ==
    \/ add_employee
    \/ edit_employee
    \/ delete_employee
    \/ StartBatch
    \/ NextEmployee
    \/ RequestGet
    \/ RequestRetry
    \/ RequestReturn
    \/ ContributorStats
    \/ Aggregate
    \/ SearchCount
    \/ InsertMetric
    \/ Collect
    \/ BatchReturn
    \/ update

Spec == Init /\ [][Next]_vars

\* The employee forms alone: every sequence of add, edit and delete requests.
FormsNext ==
    \/ add_employee
    \/ edit_employee
    \/ delete_employee

SpecForms == Init /\ [][FormsNext]_vars

\* _request alone: one call of it by any of the four fetches, under any
\* configuration.
InitRequest ==
    /\ \E db \in InitialDatabases :
         /\ employees = db.employees
         /\ metrics = db.metrics
         /\ clock = db.clock
    /\ config \in [{"GITHUB_TOKEN", "REPO_OWNER", "REPO_NAME"} -> ConfigValues]
    /\ flash = ""
    /\ pc = "request"
    /\ queue = <<>>
    /\ new_records = <<>>
    /\ emp = None
    /\ record = None
    /\ call \in {"contributors", "prs_opened", "prs_merged", "reviews"}
    /\ resp = None
    /\ retries = 0
    /\ delays = <<>>
    /\ responses = <<>>
    /\ result = None
    /\ json = NoBody
    /\ stats = JList(<<>>)
    /\ commits = 0
    /\ prs_opened = 0
    /\ prs_merged = 0
    /\ reviews = 0
    /\ all_failed = TRUE

RequestNext ==
    \/ RequestGet
    \/ RequestRetry
    \/ RequestReturn

SpecRequest == InitRequest /\ [][RequestNext]_vars

(***************************************************************************)
(* The claims.                                                             *)
(***************************************************************************)
EmployeeIds(rows) == {e.id : e \in rows}

\* The rows the running update has created so far.
Rows(records) == {records[i] : i \in DOMAIN records}

\* C1: a step that creates a Metric row creates it for an employee whose
\* active flag is true at that time, and the employees of the table do not
\* change while the batch runs: no row is created for an inactive employee.
C1_NoSnapshotForInactive ==
    [][ /\ \A m \in metrics' \ metrics :
             \E e \in employees : e.id = m.employee_id /\ e.active
        /\ (pc # "idle" => employees' = employees) ]_vars

\* A batch has returned one new row while an inactive employee was in
\* the table.
C1_Witness ==
    /\ pc = "returned"
    /\ Len(new_records) = 1
    /\ \E e \in employees : ~e.active

\* One of the three configuration values is None or the empty string.
AnyUnset ==
    \E k \in DOMAIN config : config[k].is_none \/ config[k].s = <<>>

\* C2: with the token, the owner or the repository unset,
\* update_metrics_for_employee returns None, the batch collects nothing and
\* reaches no fetch and no insert, and no step of it changes the Metric table.
C2_UnconfiguredWritesNothing ==
    /\ [](AnyUnset =>
            /\ record = None
            /\ new_records = <<>>
            /\ pc \in {"idle", "loop", "collect", "returned"})
    /\ [][(AnyUnset /\ pc # "idle") => metrics' = metrics]_vars

\* An unconfigured batch over two active employees has returned, the Metric
\* table holding a row.
C2_Witness ==
    /\ AnyUnset
    /\ pc = "returned"
    /\ Cardinality(ActiveEmployees) = 2
    /\ metrics # {}

\* C3: when the polling loop ends with the retries used up and the last
\* response still a 202, _request returns None.
C3_GivesUpWithNone ==
    [][(pc = "poll" /\ resp = Some(202) /\ retries = MaxRetries /\ pc' = "body")
         => result' = None]_vars

\* C4: one _request call makes at most MaxRetries retries and MaxRetries + 1
\* GETs, sleeps 2^i seconds before retry i (i = 0, 1, ...), and every response
\* but the last it received is a 202.
C4_BoundedBackoff ==
    /\ retries <= MaxRetries
    /\ Len(responses) <= MaxRetries + 1
    /\ Len(delays) = retries
    /\ pc = "poll" => Len(responses) = retries + 1
    /\ \A i \in DOMAIN delays : delays[i] = 2 ^ (i - 1)
    /\ \A i \in DOMAIN responses : i < Len(responses) => responses[i] = 202

\* Six 202 in a row: the five delays 1, 2, 4, 8, 16 were slept.
C4_Witness ==
    /\ delays = <<1, 2, 4, 8, 16>>
    /\ responses = <<202, 202, 202, 202, 202, 202>>

\* C5: no exception leaves update_metrics_for_all_employees.
C5_NoExceptionLeavesBatch == pc # "raised"

\* C6: with the configuration complete, a batch that has ended has created
\* exactly one row for each active employee and returns exactly those rows;
\* a row of an update whose fetches all failed holds four zeros.
C6_OneRowPerActiveEmployee ==
    /\ (Configured /\ pc \in {"returned", "raised"}) =>
          /\ pc = "returned"
          /\ Len(new_records) = Cardinality(ActiveEmployees)
          /\ \A e \in ActiveEmployees :
                Cardinality({i \in DOMAIN new_records :
                                new_records[i].employee_id = e.id}) = 1
          /\ Rows(new_records) \subseteq metrics
    /\ (pc = "collect" /\ record # None /\ all_failed) =>
          /\ record[1].commits = 0
          /\ record[1].prs_opened = 0
          /\ record[1].prs_merged = 0
          /\ record[1].reviews = 0

\* C7: the four counters of every Metric row are non-negative integers.
C7_CountersNonNegative ==
    \A m \in metrics :
        /\ m.commits \in Nat
        /\ m.prs_opened \in Nat
        /\ m.prs_merged \in Nat
        /\ m.reviews \in Nat

\* C8: no two Employee rows have the same github_username.
C8_UsernamesUnique ==
    \A e1, e2 \in employees :
        e1.github_username = e2.github_username => e1 = e2

\* A request was rejected because its username exists already.
C8_Witness == flash = "exists" /\ employees # {}

\* C9: every Metric row's employee_id is the id of an Employee row.
C9_NoOrphanedMetrics ==
    \A m \in metrics : m.employee_id \in EmployeeIds(employees)

\* Of the rows of two employees, a delete has taken one employee's and left
\* the other's.
C9_Witness ==
    /\ flash = "deleted"
    /\ clock = 3
    /\ Cardinality(metrics) = 1
    /\ Cardinality(employees) = 1

\* C10: a step leaves every Metric row as it is, or deletes it together with
\* its employee; and only the insert of update_metrics_for_employee adds a
\* row, the one it built.
C10_SnapshotsImmutable ==
    [][ /\ \A m \in metrics :
             \/ m \in metrics'
             \/ /\ m.employee_id \in EmployeeIds(employees)
                /\ m.employee_id \notin EmployeeIds(employees')
        /\ metrics' \ metrics # {} =>
             /\ pc = "insert"
             /\ metrics' \ metrics = {NewMetric} ]_vars

\* A row outlives the renaming and the deactivation of its employee, and the
\* deletion of another employee.
C10_Witness ==
    /\ flash = "deleted"
    /\ \E m \in metrics : \E e \in employees :
         /\ e.id = m.employee_id
         /\ ~e.active
         /\ e.github_username = <<"b">>
         /\ m.timestamp = 1

\* A well-formed contributor statistics payload: a list of objects, each with
\* a non-empty author login of its own and weeks whose 'c' are integers.
WellFormedStats(st) ==
    /\ st.kind = "list"
    /\ \A i \in DOMAIN st.items :
         /\ st.items[i].kind = "object"
         /\ st.items[i].login.t = "str"
         /\ st.items[i].login.s # <<>>
         /\ \A w \in DOMAIN st.items[i].weeks : st.items[i].weeks[w].t = "int"
         /\ \A j \in DOMAIN st.items : st.items[j].login = st.items[i].login => j = i

\* The sum of the 'c' of weeks 1..n.
RECURSIVE SumOfC(_, _)
SumOfC(weeks, n) ==
    IF n = 0 THEN 0 ELSE weeks[n].n + SumOfC(weeks, n - 1)

\* The commits a well-formed payload reports for `username`.
ExpectedCommits(st, username) ==
    LET mine == {i \in DOMAIN st.items : st.items[i].login.s = username}
    IN IF mine = {} THEN 0
       ELSE LET i == CHOOSE i \in mine : TRUE
            IN SumOfC(st.items[i].weeks, Len(st.items[i].weeks))

\* C11: from a well-formed payload the update takes, as the employee's
\* commits, the sum of the weekly 'c' of the entry with the employee's login
\* (0 without such an entry); the searches that follow leave that value alone,
\* and it is the commits of the row the update inserts.
C11_CommitsAreWeeklySum ==
    [][ /\ (pc = "aggregate" /\ WellFormedStats(stats)) =>
              /\ pc' = "request"
              /\ commits' = ExpectedCommits(stats, emp[1].github_username)
        /\ (pc \in {"request", "poll", "body"} /\ call # "contributors"
                /\ pc' # "raised") => commits' = commits
        /\ \A m \in metrics' \ metrics : m.commits = commits ]_vars

\* Weeks 3 and 5 of login a: the row of the employee with username a holds
\* 8 commits, and a row of the employee with username b holds 0.
C11_Witness ==
    /\ pc = "collect"
    /\ record # None
    /\ record[1].commits = 8
    /\ emp[1].github_username = <<"a">>
    /\ ~all_failed
    /\ \E m \in metrics : \E e \in employees :
         /\ e.id = m.employee_id
         /\ e.github_username = <<"b">>
         /\ m.commits = 0
         /\ m.prs_opened = 2

\* The three queries of the specification, for username u in owner/repo.
RepoTerm == <<"repo:">> \o config["REPO_OWNER"].s \o <<"/">> \o config["REPO_NAME"].s

OpenedQuery(u) == << <<"is:pr">>, <<"author:">> \o u, RepoTerm >>

MergedQuery(u) == << <<"is:pr">>, <<"author:">> \o u, <<"is:merged">>, RepoTerm >>

ReviewsQuery(u) == << <<"is:pr">>, <<"reviewed-by:">> \o u, RepoTerm >>

\* The search under way has been answered: its request failed, or its
\* response carries an integer total_count.
SearchFailed == result = None

SearchCounted ==
    result # None /\ json.kind = "object" /\ json.total_count.t = "int"

\* What the search under way reports: its total_count, 0 when it failed.
Reported == IF SearchFailed THEN 0 ELSE json.total_count.n

\* C12: the answer to the query 'is:pr author:u' goes to prs_opened, the one
\* to 'is:pr author:u is:merged' to prs_merged, the one to
\* 'is:pr reviewed-by:u' to reviews, each as the total_count reported (0 when
\* the query failed) and without touching the other two; no other step of
\* the update changes the three counts, and they are those of the row
\* inserted.
C12_CountsGoToTheirCounter ==
    [][ /\ (pc = "body" /\ call # "contributors"
                /\ (SearchFailed \/ SearchCounted)) =>
              LET u == emp[1].github_username
              IN /\ pc' # "raised"
                 /\ Query \in {OpenedQuery(u), MergedQuery(u), ReviewsQuery(u)}
                 /\ prs_opened' =
                      IF Query = OpenedQuery(u) THEN Reported ELSE prs_opened
                 /\ prs_merged' =
                      IF Query = MergedQuery(u) THEN Reported ELSE prs_merged
                 /\ reviews' =
                      IF Query = ReviewsQuery(u) THEN Reported ELSE reviews
        /\ (pc \in {"request", "poll", "aggregate", "insert"}
                \/ (pc = "body" /\ call = "contributors")) =>
              \/ pc' = "raised"
              \/ <<prs_opened, prs_merged, reviews>>'
                    = <<prs_opened, prs_merged, reviews>>
        /\ \A m \in metrics' \ metrics :
              /\ m.prs_opened = prs_opened
              /\ m.prs_merged = prs_merged
              /\ m.reviews = reviews ]_vars

\* A row whose merged count is the 2 its query reported, while the query of
\* the opened count failed and the reviews search reported nothing usable.
C12_Witness ==
    /\ pc = "collect"
    /\ record # None
    /\ record[1].prs_opened = 0
    /\ record[1].prs_merged = 2
    /\ record[1].reviews = 0

\* C13: _request returns None, and raises nothing, when it runs without a
\* token, when a GET fails at the network level (the first one, or one of
\* the polling loop while it would go on), and when the response the loop
\* ends with has a status of 400 or more.
C13_FailureGivesNone ==
    [][ /\ (pc = "request" /\ ~Truthy(config["GITHUB_TOKEN"])) =>
              pc' = "body" /\ result' = None
        /\ (pc = "request" /\ pc' = "body") => result' = None
        /\ (pc = "poll" /\ pc' = "body" /\ resp = Some(202)
                /\ retries < MaxRetries) => result' = None
        /\ (pc = "poll" /\ resp # None /\ resp[1] >= 400) =>
              pc' = "body" /\ result' = None
        /\ pc \in {"request", "poll"} => pc' \in {"poll", "body"} ]_vars

\* The last retry of a call was answered 403, after 202 all along.
C13_Witness ==
    /\ pc = "poll"
    /\ resp = Some(403)
    /\ retries = MaxRetries
    /\ responses = <<202, 202, 202, 202, 202, 403>>

\* C14: a request that ends with the message of a rejection (a name or a
\* username missing, a username in use) leaves the Employee table, and the
\* Metric table, exactly as they were.
C14_RejectionWritesNothing ==
    [][flash' \in {"required", "exists"} =>
          employees' = employees /\ metrics' = metrics]_vars

\* An edit was rejected for its username (with both ids in use no add gets
\* as far as the username check), the other employee holding that username.
C14_Witness ==
    /\ flash = "exists"
    /\ Cardinality(employees) = 2
    /\ \E e \in employees : e.name = <<"x">> /\ e.active
    /\ \E e \in employees : e.name = <<"y">> /\ ~e.active

\* The order of the external calls of one employee's update.
CallOrder ==
    { <<"none", "contributors">>, <<"contributors", "prs_opened">>,
      <<"prs_opened", "prs_merged">>, <<"prs_merged", "reviews">>,
      <<"reviews", "none">> }

\* C15: the calls of an update follow one another in the order contributor
\* statistics, PRs opened, PRs merged, reviews; the insert comes after the
\* reviews and is that employee's row; the update takes one employee at a
\* time, and the first call for an employee starts only when every employee
\* taken before has its row committed.
C15_OneEmployeeAtATimeInOrder ==
    [][ /\ call' # call => (<<call, call'>> \in CallOrder \/ pc' = "raised")
        /\ pc' \in {"request", "poll", "body"} => call' # "none" /\ emp' # None
        /\ (pc' = "insert" /\ pc # "insert") => pc = "body" /\ call = "reviews"
        /\ (pc # "idle" /\ metrics' # metrics) =>
              /\ pc = "insert"
              /\ \A m \in metrics' \ metrics : m.employee_id = emp[1].id
              /\ emp' = emp
        /\ emp' # emp => (emp = None \/ emp' = None)
        /\ (call' = "contributors" /\ call # "contributors") =>
              /\ pc = "loop"
              /\ emp = None
              /\ Rows(new_records) \subseteq metrics
              /\ Len(new_records) + Len(queue) = Cardinality(ActiveEmployees)
              /\ \A e \in ActiveEmployees :
                    \/ \E i \in DOMAIN queue : queue[i] = e
                    \/ \E i \in DOMAIN new_records :
                          new_records[i].employee_id = e.id ]_vars

\* The statistics call of the second employee is under way, the row of the
\* first committed.
C15_Witness ==
    /\ pc = "poll"
    /\ call = "contributors"
    /\ Len(new_records) = 1
    /\ emp # None
    /\ new_records[1].employee_id # emp[1].id
    /\ new_records[1] \in metrics

\* The employees of the running batch whose update has reached its commit:
\* those taken from the queue, but for the one whose update is still on its
\* way to the commit or was ended by an exception.
ReachedCommit ==
    Cardinality(ActiveEmployees) - Len(queue)
        - (IF emp # None /\ pc # "collect" THEN 1 ELSE 0)

\* The rows the running batch has committed.
CommittedByBatch ==
    Rows(new_records) \cup (IF record # None THEN {record[1]} ELSE {})

\* C16: during a batch the rows it has committed are in the Metric table, one
\* for each employee whose update reached its commit, also when an exception
\* stops the batch; a step of the batch adds exactly one row when it is a
\* commit and changes no row otherwise; and every row holds its four counters.
C16_OneCommitPerSnapshot ==
    /\ [](/\ CommittedByBatch \subseteq metrics
          /\ (pc # "idle" /\ Configured) =>
                Cardinality(CommittedByBatch) = ReachedCommit
          /\ \A m \in metrics :
                {m.commits, m.prs_opened, m.prs_merged, m.reviews} \subseteq Int)
    /\ [][pc # "idle" =>
            /\ metrics \subseteq metrics'
            /\ Cardinality(metrics') =
                  Cardinality(metrics) + (IF pc = "insert" THEN 1 ELSE 0)]_vars

\* The batch stopped with an exception in the update of its second employee:
\* the row of the first is in the table.
C16_Witness ==
    /\ pc = "raised"
    /\ Len(new_records) = 1
    /\ queue = <<>>
    /\ emp # None
    /\ new_records[1].employee_id # emp[1].id
    /\ new_records[1] \in metrics

=============================================================================
